---- MODULE Spec2Model ----
(***************************************************************************)
(* A model of lemmy_sync.py: the rate-limited client (LemmyApi), the       *)
(* comment collector (LemmyApi.get_comments), the seen-id index            *)
(* (PostList.load_ids_from_file) and the sync loop (sync_community,        *)
(* sync_communities, the module-level while loop).                         *)
(*                                                                         *)
(* Three specifications share the module:                                  *)
(*   Spec        the sync loop, time in whole hours;                       *)
(*   SpecCollect LemmyApi.get_comments called repeatedly on one client;    *)
(*   SpecRate    LemmyApi.get_api called repeatedly, time in seconds.      *)
(***************************************************************************)
EXTENDS Integers, Sequences, FiniteSets, TLC

\* ------------------------------------------------------------------ bounds
MaxPostId == 2        \* post identifiers are 1..MaxPostId
MaxPageLen == 2       \* posts the server returns on one listing page
MaxCycles == 2        \* sync cycles explored
MaxComPerPage == 2    \* comments the server returns on one comment page
MaxExpected == 3      \* largest server-reported comment count
MaxAcc == 4           \* get_comments is called while the shared list is this short
MaxCalls == 3         \* calls of get_api explored

\* --------------------------------------------------- configuration defaults
max_page == 2
sync_interval == 12
min_post_age == 24
DayHours == 24
request_interval == 20

\* The configured list of communities, each named by its position in the list.
communities == <<1, 2>>
NumCommunities == Len(communities)
Communities == 1..NumCommunities
PostIds == 1..MaxPostId
StartHour == 3 * DayHours + 6
MaxReqPages == MaxExpected + 1

Range(s) == {s[k] : k \in 1..Len(s)}

\* The publication hour of a post: odd identifiers are min_post_age + 5 hours
\* old at the first cycle, even ones min_post_age - 1 hours old.
published(id) ==
    IF id % 2 = 1 THEN StartHour - min_post_age - 5
                  ELSE StartHour - min_post_age + 1

Age(id, t) == t - published(id)

\* get_date: the date part of the ISO string, i.e. midnight of that day.
get_date(hour) == (hour \div DayHours) * DayHours

VARIABLES
    clock,          \* wall-clock time in hours
    cycle,          \* number of the current cycle of the while loop
    pc,             \* position of the single thread of control
    ci,             \* index into communities (sync_communities' for loop)
    files,          \* files[c]: lines of data/posts_<c>.jsonl
    saved_ids,      \* sync_community's saved_ids
    new_posts,      \* new_posts.posts
    new_ids,        \* new_posts.ids
    now,            \* sync_community's now
    page,           \* sync_community's page
    page_len,       \* len(posts_for_page)
    idx,            \* position of the inner for loop in posts_for_page
    requests,       \* api.requests
    requests_file,  \* lines of the requests file
    acc_default,    \* the list object bound to get_comments' default acc
    env_ok,         \* no remote call and no index load of the cycle failed
    eligible,       \* unseen, old enough posts met in this community's cycle
    young,          \* unseen, too young posts met in this community's cycle
    prev_eligible,  \* per community: eligible of the previous cycle (as a set)
    deferred,       \* per community: young of the previous cycle (as a set)
    file_exists,    \* file_exists[c]: os.path.exists(data/posts_<c>.jsonl)
    error,          \* the exception that ended the community's cycle, or "none"
    met,            \* the post the inner for loop looked at last (0: none yet)
    start_file,     \* the community's file when its cycle started
    issued,         \* every audit-log entry ever appended to api.requests
    started,        \* communities whose sync_community was called this cycle
    failed,         \* communities whose sync_community raised this cycle
    last_call,      \* SpecCollect: the last get_comments call and its result
    time,           \* SpecRate: wall-clock time in seconds
    last_request,   \* api.last_request
    api_pc,         \* position inside get_api
    call_now,       \* get_api's now (the date written to the audit log)
    sleep_for,      \* get_api's sleep_time
    sends,          \* the times at which requests.get was called
    dates,          \* the date fields of the audit-log entries
    returns,        \* the times at which requests.get returned
    ended           \* how the last call of get_api ended

vars == <<clock, cycle, pc, ci, files, saved_ids, new_posts, new_ids, now, page,
          page_len, idx, requests, requests_file, acc_default, env_ok,
          eligible, young, prev_eligible, deferred, file_exists, error, met,
          start_file, issued, started, failed, last_call, time, last_request,
          api_pc, call_now, sleep_for, sends, dates, returns, ended>>

rateVars == <<time, last_request, api_pc, call_now, sleep_for, sends, dates, returns,
              ended>>

loopVars == <<clock, cycle, pc, ci, files, saved_ids, new_posts, new_ids, now,
              page, page_len, idx, requests, requests_file, env_ok,
              eligible, young, prev_eligible, deferred, file_exists, error, met,
              start_file, issued, started, failed>>

\* ------------------------------------------------------ comment collector

\* A comment payload returned for post_id on page pg.
CommentsOfPage(post_id, pg, n) ==
    [j \in 1..n |-> [post_id |-> post_id, page |-> pg, k |-> j]]

Responses ==
    {[status |-> 200, n |-> k] : k \in 0..MaxComPerPage} \cup {[status |-> 500, n |-> 0]}

\* What the server answers to the successive comment/list requests of one call.
ServerBehaviours == [1..MaxReqPages -> Responses]

\* get_comments' test without the condition that the page just returned was
\* non-empty.
get_comments_page_no_empty_stop(expected_num, acc, comments) ==
    LET acc2 == acc \o comments
    IN  [acc |-> acc2, recurse |-> Len(acc2) < expected_num]

\* LemmyApi.get_comments after the request (lines 73-77): the page is appended
\* to acc, and the next page is asked for while acc is shorter than
\* expected_num and the page was not empty.
get_comments_page(expected_num, acc, comments) ==
    LET acc2 == acc \o comments
    IN  [acc |-> acc2, recurse |-> Len(acc2) < expected_num /\ Len(comments) > 0]

\* LemmyApi.get_comments(post_id, community_name, expected_num, page, acc) as
\* one evaluation: the recursion against the answers of server, with the pages
\* requested and the comments this call received.
RECURSIVE get_comments(_, _, _, _, _, _)
get_comments(post_id, expected_num, pg, acc, got, server) ==
    LET resp == server[pg]
        comments == CommentsOfPage(post_id, pg, resp.n)
        step == get_comments_page(expected_num, acc, comments)
    IN  IF resp.status # 200
        THEN [raises |-> TRUE, acc |-> acc, pages |-> pg, got |-> got]
        ELSE IF step.recurse /\ pg < MaxReqPages
        THEN get_comments(post_id, expected_num, pg + 1, step.acc, got \o comments, server)
        ELSE [raises |-> FALSE, acc |-> step.acc, pages |-> pg, got |-> got \o comments]

\* The audit-log entries of the comment/list requests of one call.
CommentRequests(post_id, c, pages, date) ==
    [k \in 1..pages |-> [path |-> "comment/list", community |-> c, arg |-> post_id,
                          page |-> k, date |-> date]]

\* ---------------------------------------------------------------- sync loop

\* diff.hours as the whole hours of the difference (the value a timedelta with
\* such an attribute would give).
timedelta_hours_total(diff) == [raises |-> FALSE, value |-> diff]

\* timedelta has no attribute hours: evaluating diff.hours raises AttributeError.
timedelta_hours(diff) == [raises |-> TRUE, value |-> 0]

\* The inner for loop with the age test placed before the seen filter.
post_outcome_age_first(id, saved, t) ==
    LET date == get_date(published(id))
        h == timedelta_hours(t - date)
    IN  IF h.raises THEN "raise"
        ELSE IF h.value < min_post_age THEN "young"
        ELSE IF id \in Range(saved) THEN "seen" ELSE "accept"

\* The body of sync_community's inner for loop up to the call of add_to_posts.
post_outcome(id, saved, t) ==
    IF id \in Range(saved) THEN "seen"
    ELSE LET date == get_date(published(id))
             h == timedelta_hours(t - date)
         IN  IF h.raises THEN "raise"
             ELSE IF h.value < min_post_age THEN "young" ELSE "accept"

\* The identifiers of the lines of a file that parse.
LineIds(file) ==
    LET good == SelectSeq(file, LAMBDA line : line.json_ok)
    IN  [k \in 1..Len(good) |-> good[k].id]

\* The read loop of load_ids_from_file skipping a line that does not parse.
RECURSIVE read_lines_skipping(_, _, _)
read_lines_skipping(file, k, ids) ==
    IF k > Len(file) THEN [raises |-> FALSE, ids |-> ids]
    ELSE IF ~file[k].json_ok THEN read_lines_skipping(file, k + 1, ids)
    ELSE read_lines_skipping(file, k + 1, Append(ids, file[k].id))

\* The read loop of load_ids_from_file (lines 146-150): json.loads and
\* data['post']['id'] raise on a line that is not a JSON post record.
RECURSIVE read_lines(_, _, _)
read_lines(file, k, ids) ==
    IF k > Len(file) THEN [raises |-> FALSE, ids |-> ids]
    ELSE IF ~file[k].json_ok THEN [raises |-> TRUE, ids |-> <<>>]
    ELSE read_lines(file, k + 1, Append(ids, file[k].id))

\* PostList.load_ids_from_file: a missing file gives the empty list.
load_ids_from_file(exists, file) ==
    IF ~exists THEN [raises |-> FALSE, ids |-> <<>>]
    ELSE read_lines(file, 1, <<>>)

\* The except clause placed around the whole for loop: an error ends the loop.
next_after_except_leaves_loop(c) == NumCommunities + 1

\* sync_communities: the try statement is inside the for loop, which goes on
\* with the next community after the except clause.
next_after_except(c) == c + 1

\* save_requests without the final self.requests = [].
save_requests_keeping(reqs, file) == [file |-> file \o reqs, requests |-> reqs]

\* LemmyApi.save_requests: every entry is appended to the file, then the list
\* is emptied.
save_requests(reqs, file) == [file |-> file \o reqs, requests |-> <<>>]

\* save_to_file opening the storage file with mode 'w' on entry.
save_to_file_truncating(posts, file) == [raises |-> Len(posts) # 0, file |-> <<>>]

\* PostList.save_to_file: returns on an empty list; otherwise the call of the
\* undefined name get_posts_for_day raises NameError before anything is written.
save_to_file(posts, file) ==
    IF Len(posts) = 0 THEN [raises |-> FALSE, file |-> file]
    ELSE [raises |-> TRUE, file |-> file]

\* Storage files found at start-up: the posts 1..k in order, for some k, the
\* last line possibly followed by a truncated one.
PostLine(id) == [id |-> id, json_ok |-> TRUE]
TruncatedLine == [id |-> 0, json_ok |-> FALSE]
GoodFiles == {[k \in 1..n |-> PostLine(k)] : n \in 0..MaxPostId}
InitialFiles == GoodFiles \cup {Append(f, TruncatedLine) : f \in GoodFiles}

InitLoop ==
    /\ clock = StartHour
    /\ cycle = 1
    /\ pc = "sync_communities"
    /\ ci = 1
    /\ files \in [Communities -> InitialFiles]
    /\ file_exists \in [Communities -> BOOLEAN]
    /\ \A c \in Communities : ~file_exists[c] => files[c] = <<>>
    /\ error = "none"
    /\ met = 0
    /\ start_file = <<>>
    /\ issued = <<>>
    /\ started = {}
    /\ failed = {}
    /\ saved_ids = <<>>
    /\ new_posts = <<>>
    /\ new_ids = <<>>
    /\ now = StartHour
    /\ page = 1
    /\ page_len = 0
    /\ idx = 1
    /\ requests = <<>>
    /\ requests_file = <<>>
    /\ env_ok = TRUE
    /\ eligible = <<>>
    /\ young = {}
    /\ prev_eligible = [c \in Communities |-> {}]
    /\ deferred = [c \in Communities |-> {}]

NoCall == [active |-> FALSE, post_id |-> 0, expected_num |-> 0, before |-> <<>>, raises |-> FALSE,
           result |-> <<>>, pages |-> 0, got |-> <<>>, last_empty |-> FALSE]

InitCollectVars ==
    /\ acc_default = <<>>
    /\ last_call = NoCall

\* LemmyApi.__init__: last_request = time(), requests = [].
InitRateVars ==
    /\ time = 0
    /\ last_request = 0
    /\ api_pc = "idle"
    /\ call_now = 0
    /\ sleep_for = 0
    /\ sends = <<>>
    /\ dates = <<>>
    /\ returns = <<>>
    /\ ended = "none"

Init ==
    /\ InitLoop
    /\ InitCollectVars
    /\ InitRateVars

\* sync_communities' for loop entering sync_community: lines 194-198.
StartCommunity ==
    /\ pc = "sync_communities"
    /\ ci <= NumCommunities
    /\ LET r == load_ids_from_file(file_exists[ci], files[ci])
       IN  /\ saved_ids' = r.ids
           /\ env_ok' = ~r.raises
           /\ error' = IF r.raises THEN "load" ELSE "none"
           /\ pc' = IF r.raises THEN "except" ELSE "get_posts"
    /\ new_posts' = <<>>
    /\ new_ids' = <<>>
    /\ now' = clock
    /\ page' = 1
    /\ eligible' = <<>>
    /\ young' = {}
    /\ met' = 0
    /\ start_file' = files[ci]
    /\ started' = started \cup {ci}
    /\ UNCHANGED <<clock, cycle, ci, files, page_len, idx, requests, requests_file,
                   acc_default, prev_eligible, deferred, file_exists, issued, failed,
                   last_call, rateVars>>

\* api.get_posts(community, 'New', page): one request, answered 200 with a page
\* of n posts, with another status, which get_api raises, or with a body that
\* json.loads or ['posts'] rejects.
GetPosts ==
    /\ pc = "get_posts"
    /\ \E answer \in {"ok", "status", "body"}, n \in 0..MaxPageLen :
        LET entry == [path |-> "post/list", community |-> ci, arg |-> 0, page |-> page,
                      date |-> clock]
        IN  /\ requests' = Append(requests, entry)
            /\ issued' = Append(issued, entry)
            /\ IF answer = "ok"
               THEN /\ page_len' = n
                    /\ idx' = 1
                    /\ pc' = "for_post"
                    /\ UNCHANGED <<env_ok, error>>
               ELSE /\ pc' = "except"
                    /\ env_ok' = FALSE
                    /\ error' = IF answer = "status" THEN "http" ELSE "parse"
                    /\ UNCHANGED <<page_len, idx>>
    /\ UNCHANGED <<clock, cycle, ci, files, saved_ids, new_posts, new_ids, now, page,
                   requests_file, acc_default, eligible, young,
                   prev_eligible, deferred, file_exists, met, start_file, started,
                   failed, last_call, rateVars>>

\* One iteration of the inner for loop (lines 202-209) on the post p that the
\* page holds at position idx, add_to_posts and Post.__init__ included.
ForPost ==
    /\ pc = "for_post"
    /\ idx <= page_len
    /\ \E p \in PostIds :
        LET outcome == post_outcome(p, saved_ids, now)
            unseen == p \notin Range(saved_ids)
        IN  /\ met' = p
            /\ eligible' = IF unseen /\ Age(p, now) >= min_post_age /\ p \notin Range(eligible)
                           THEN Append(eligible, p) ELSE eligible
            /\ young' = IF unseen /\ Age(p, now) < min_post_age
                        THEN young \cup {p} ELSE young
            /\ CASE outcome = "raise" ->
                      /\ pc' = "except"
                      /\ error' = "AttributeError"
                      /\ UNCHANGED <<idx, new_posts, new_ids, requests, issued,
                                     acc_default, env_ok>>
                 [] outcome \in {"seen", "young"} ->
                      /\ idx' = idx + 1
                      /\ UNCHANGED <<pc, new_posts, new_ids, requests, issued,
                                     acc_default, env_ok, error>>
                 [] outcome = "accept" /\ p \in Range(new_ids) ->
                      /\ idx' = idx + 1
                      /\ UNCHANGED <<pc, new_posts, new_ids, requests, issued,
                                     acc_default, env_ok, error>>
                 [] outcome = "accept" /\ p \notin Range(new_ids) ->
                      \E expected_num \in 0..MaxExpected, server \in ServerBehaviours :
                        LET r == get_comments(p, expected_num, 1, acc_default, <<>>, server)
                        IN  /\ requests' = requests \o CommentRequests(p, ci, r.pages, clock)
                            /\ issued' = issued \o CommentRequests(p, ci, r.pages, clock)
                            /\ acc_default' = r.acc
                            /\ IF r.raises
                               THEN /\ pc' = "except"
                                    /\ env_ok' = FALSE
                                    /\ error' = "http"
                                    /\ UNCHANGED <<idx, new_posts, new_ids>>
                               ELSE /\ new_posts' = Append(new_posts,
                                                        [id |-> p, comments |-> r.acc])
                                    /\ new_ids' = Append(new_ids, p)
                                    /\ idx' = idx + 1
                                    /\ UNCHANGED <<pc, env_ok, error>>
    /\ UNCHANGED <<clock, cycle, ci, files, saved_ids, now, page, page_len,
                   requests_file, prev_eligible, deferred, file_exists, start_file,
                   started, failed, last_call, rateVars>>

\* The inner for loop is exhausted: the next page, or line 210 after the last.
EndPage ==
    /\ pc = "for_post"
    /\ idx > page_len
    /\ IF page < max_page
       THEN /\ page' = page + 1
            /\ pc' = "get_posts"
       ELSE /\ pc' = "save_to_file"
            /\ UNCHANGED page
    /\ UNCHANGED <<clock, cycle, ci, files, saved_ids, new_posts, new_ids, now,
                   page_len, idx, requests, requests_file, acc_default, env_ok,
                   eligible, young, prev_eligible, deferred, file_exists, error, met, start_file, issued, started, failed,
                   last_call, rateVars>>

\* new_posts.save_to_file(saved_posts_file): line 211.
SaveToFile ==
    /\ pc = "save_to_file"
    /\ LET r == save_to_file(new_posts, files[ci])
       IN  /\ files' = [files EXCEPT ![ci] = r.file]
           /\ pc' = IF r.raises THEN "except" ELSE "community_done"
           /\ error' = IF r.raises THEN "NameError" ELSE error
    /\ UNCHANGED <<clock, cycle, ci, saved_ids, new_posts, new_ids, now, page,
                   page_len, idx, requests, requests_file, acc_default, env_ok,
                   eligible, young, prev_eligible, deferred, file_exists, met,
                   start_file, issued, started, last_call, failed, rateVars>>

\* sync_communities' except clause: the traceback is printed, sleep(10).
Except ==
    /\ pc = "except"
    /\ pc' = "community_done"
    /\ failed' = failed \cup {ci}
    /\ UNCHANGED <<clock, cycle, ci, files, saved_ids, new_posts, new_ids, now, page,
                   page_len, idx, requests, requests_file, acc_default, env_ok,
                   eligible, young, prev_eligible, deferred, file_exists, error, met,
                   start_file, issued, started, last_call, rateVars>>

\* sync_communities' for loop moves to the next community.
NextCommunity ==
    /\ pc = "community_done"
    /\ ci' = IF ci \in failed THEN next_after_except(ci) ELSE ci + 1
    /\ pc' = "sync_communities"
    /\ prev_eligible' = [prev_eligible EXCEPT ![ci] = IF env_ok THEN Range(eligible) ELSE {}]
    /\ deferred' = [deferred EXCEPT ![ci] = young]
    /\ UNCHANGED <<clock, cycle, files, saved_ids, new_posts, new_ids, now, page,
                   page_len, idx, requests, requests_file, acc_default, env_ok,
                   eligible, young, file_exists, error, met, start_file, issued, started, failed,
                   last_call, rateVars>>

\* api.save_requests(requests_file): line 274 and lines 79-83.
SaveRequests ==
    /\ pc = "sync_communities"
    /\ ci > NumCommunities
    /\ LET r == save_requests(requests, requests_file)
       IN  /\ requests_file' = r.file
           /\ requests' = r.requests
    /\ pc' = "sleep"
    /\ UNCHANGED <<clock, cycle, ci, files, saved_ids, new_posts, new_ids, now, page,
                   page_len, idx, acc_default, env_ok, eligible, young,
                   prev_eligible, deferred, file_exists, error, met, start_file,
                   issued, started, failed, last_call, rateVars>>

\* sleep(sync_interval) and the next iteration of the while loop: lines 271-276.
Sleep ==
    /\ pc = "sleep"
    /\ cycle < MaxCycles
    /\ clock' = clock + sync_interval
    /\ cycle' = cycle + 1
    /\ ci' = 1
    /\ pc' = "sync_communities"
    /\ started' = {}
    /\ failed' = {}
    /\ UNCHANGED <<files, saved_ids, new_posts, new_ids, now, page, page_len, idx,
                   requests, requests_file, acc_default, env_ok, eligible,
                   young, prev_eligible, deferred, file_exists, error, met,
                   start_file, issued, last_call, rateVars>>

Next ==
    \/ StartCommunity
    \/ GetPosts
    \/ ForPost
    \/ EndPage
    \/ SaveToFile
    \/ Except
    \/ NextCommunity
    \/ SaveRequests
    \/ Sleep

Spec == Init /\ [][Next]_vars

\* ------------------------------------------------------ sync loop: properties

InCommunity == pc \in {"get_posts", "for_post", "save_to_file", "except", "community_done"}

FileIds(c) == LineIds(files[c])

\* The identifiers appended to the current community's file since its cycle
\* started.
AppendedIds == SubSeq(FileIds(ci), Len(LineIds(start_file)) + 1, Len(FileIds(ci)))

\* C2: when a community's cycle ends and no remote call of it failed, the
\* posts listed that were not in the file and were at least min_post_age old
\* have been appended exactly once, in the order first met, so that the next
\* index load returns the old identifiers followed by theirs.
C2_EligibleAppendedInOrder ==
    (pc = "community_done" /\ env_ok) => FileIds(ci) = saved_ids \o eligible

\* C3: in a cycle that follows a cycle whose remote calls all succeeded, the
\* index loaded from the file contains every identifier the previous cycle
\* found eligible, and the cycle appends nothing.
C3_SecondCycleAllSeen ==
    (cycle >= 2 /\ InCommunity) =>
        /\ prev_eligible[ci] \subseteq Range(saved_ids)
        /\ AppendedIds = <<>>

\* C4: a post younger than min_post_age hours when the community's cycle took
\* its time is neither appended to the storage file in that cycle nor put on
\* the cycle's in-memory identifier list or accept-list.
C4_YoungNotAppended ==
    InCommunity =>
        \A p \in PostIds :
            Age(p, now) < min_post_age =>
                /\ p \notin Range(new_ids)
                /\ p \notin {new_posts[k].id : k \in 1..Len(new_posts)}
                /\ p \notin Range(AppendedIds)

\* C4 witness: a community's cycle has ended after it met an unseen post
\* published min_post_age - 1 hours before.
C4_Witness ==
    /\ pc = "community_done"
    /\ \E p \in young : Age(p, now) = min_post_age - 1

\* C5: a post deferred as too young in the previous cycle, met again unseen
\* and old enough in a cycle whose remote calls all succeeded, is in the
\* storage file when that community's cycle ends.
C5_DeferredLaterAppended ==
    (pc = "community_done" /\ env_ok) =>
        \A p \in deferred[ci] \cap Range(eligible) : p \in Range(FileIds(ci))

\* C11: an error raised while one community is synchronised is caught at the
\* boundary of that community: every later community is still synchronised in
\* the same cycle, the audit log is still flushed, the next cycle starts one
\* sync interval later, and the loop has no state in which it stops.
C11_ErrorContainedPerCommunity ==
    /\ started = {c \in Communities : c < ci \/ (c = ci /\ InCommunity)}
    /\ failed \subseteq started
    /\ pc = "sleep" => (started = Communities /\ requests = <<>>)
    /\ clock = StartHour + (cycle - 1) * sync_interval
    /\ (pc = "sleep" /\ cycle >= MaxCycles) \/ ENABLED Next

\* C11 witness: a later cycle has ended, every community was synchronised and
\* the audit log was flushed although the first community raised.
C11_Witness ==
    /\ pc = "sleep"
    /\ cycle >= 2
    /\ 1 \in failed
    /\ started = Communities
    /\ requests = <<>>
    /\ requests_file # <<>>

\* A line of the file that json.loads or data['post']['id'] rejects.
HasBadLine(file) == \E k \in 1..Len(file) : ~file[k].json_ok

\* C12: a storage file holding a line that is not a JSON post record (a
\* truncated last line) makes the index load fail: the community's cycle ends
\* in the except clause before any listing request, and never goes on with the
\* identifiers read before the bad line. A missing file gives the empty index
\* without an error, and a load that succeeds gives every line's identifier.
C12_CorruptIndexFails ==
    InCommunity =>
        /\ (file_exists[ci] /\ HasBadLine(start_file)) =>
              /\ error = "load"
              /\ pc \in {"except", "community_done"}
              /\ met = 0
              /\ \A k \in 1..Len(requests) : requests[k].community # ci
        /\ ~file_exists[ci] => (error # "load" /\ saved_ids = <<>>)
        /\ error # "load" => saved_ids = LineIds(start_file)

\* C12 witness: the load has failed on a truncated line that follows a good
\* line, whose identifier had been read.
C12_Witness ==
    /\ pc = "except"
    /\ error = "load"
    /\ Len(start_file) >= 2
    /\ start_file[1].json_ok
    /\ ~start_file[Len(start_file)].json_ok

\* C14: the audit log is flushed once per cycle and cleared: the requests file
\* followed by the in-memory log is at all times the sequence of the entries
\* issued, in issue order, each once; the in-memory log holds entries of the
\* running cycle only and is empty once the cycle's flush has run.
C14_AuditLogFlushedOnce ==
    /\ requests_file \o requests = issued
    /\ \A k \in 1..Len(requests) : requests[k].date = clock
    /\ pc = "sleep" => (requests = <<>> /\ requests_file = issued)

\* C14 witness: the second cycle's flush has run; the requests file holds an
\* entry of the first cycle and an entry of a community that failed in the
\* second.
C14_Witness ==
    /\ pc = "sleep"
    /\ requests = <<>>
    /\ \E k \in 1..Len(requests_file) : requests_file[k].date < clock
    /\ \E k \in 1..Len(requests_file) :
          /\ requests_file[k].date = clock
          /\ requests_file[k].community \in failed

IsPrefix(a, b) == Len(a) <= Len(b) /\ SubSeq(b, 1, Len(a)) = a

\* C15: a storage file is append-only: in every step the content of each
\* community's file before the step is a prefix of its content after it, so
\* no step rewrites, reorders or deletes a line.
C15_StorageAppendOnly ==
    [][\A c \in Communities : IsPrefix(files[c], files'[c])]_vars

\* C15 witness: save_to_file has returned in a later cycle of a community
\* whose file held lines, all of them still there.
C15_Witness ==
    /\ pc = "community_done"
    /\ error = "none"
    /\ cycle >= 2
    /\ Len(start_file) >= 1
    /\ IsPrefix(start_file, files[ci])

\* The comment-list requests of the current community's running cycle.
CommentListArgs ==
    {requests[k].arg : k \in {j \in 1..Len(requests) :
        /\ requests[j].path = "comment/list"
        /\ requests[j].community = ci
        /\ requests[j].date = clock}}

\* C16: for a post whose identifier is in the index loaded at the start of the
\* community's cycle no comment-list request is issued in that cycle and no
\* record is appended; the seen filter comes before the age check, which such
\* a post never reaches, and before comment collection.
C16_SeenPostSkipped ==
    InCommunity =>
        /\ CommentListArgs \cap Range(saved_ids) = {}
        /\ Range(new_ids) \cap Range(saved_ids) = {}
        /\ Range(AppendedIds) \cap Range(saved_ids) = {}
        /\ error = "AttributeError" => met \notin Range(saved_ids)

\* C16 witness: the last post of a listing page was in the loaded index and
\* the loop has stepped past it.
C16_Witness ==
    /\ pc = "for_post"
    /\ idx > page_len
    /\ met \in Range(saved_ids)
    /\ error = "none"
    /\ files[ci] = start_file

\* C19: a community's storage file is as it was when the community's cycle
\* started for as long as the cycle runs and whenever it is aborted, at the
\* index load, a listing page, the age check, comment collection or the save;
\* the file differs only once every page was processed and the accept-list,
\* not empty, was saved.
C19_AbortLeavesFile ==
    InCommunity =>
        /\ (pc # "community_done" \/ ci \in failed) => files[ci] = start_file
        /\ files[ci] # start_file =>
              /\ page > max_page
              /\ Len(new_posts) > 0
              /\ IsPrefix(start_file, files[ci])

\* C19 witness: the cycle of a community whose file holds lines was aborted by
\* the age check on the second listing page.
C19_Witness ==
    /\ pc = "community_done"
    /\ ci \in failed
    /\ error = "AttributeError"
    /\ page = 2
    /\ Len(start_file) >= 1
    /\ files[ci] = start_file

\* C18: when a community's cycle ends without an environment error, every post
\* that passed the seen filter and the age filter had its comments collected
\* (a comment-list request was issued for it), was put on the accept-list with
\* them, and its record was appended to the storage file.
C18_AcceptedEnrichedThenWritten ==
    (pc = "community_done" /\ env_ok) =>
        \A p \in Range(eligible) :
            /\ p \in CommentListArgs
            /\ \E k \in 1..Len(new_posts) : new_posts[k].id = p
            /\ p \in Range(AppendedIds)

\* -------------------------------------------- comment collector: behaviour

\* The sync loop at rest, for the specifications of the client alone.
InitLoopIdle ==
    /\ clock = StartHour
    /\ cycle = 1
    /\ pc = "sync_communities"
    /\ ci = 1
    /\ files = [c \in Communities |-> <<>>]
    /\ saved_ids = <<>>
    /\ new_posts = <<>>
    /\ new_ids = <<>>
    /\ now = StartHour
    /\ page = 1
    /\ page_len = 0
    /\ idx = 1
    /\ requests = <<>>
    /\ requests_file = <<>>
    /\ env_ok = TRUE
    /\ eligible = <<>>
    /\ young = {}
    /\ prev_eligible = [c \in Communities |-> {}]
    /\ deferred = [c \in Communities |-> {}]
    /\ file_exists = [c \in Communities |-> FALSE]
    /\ error = "none"
    /\ met = 0
    /\ start_file = <<>>
    /\ issued = <<>>
    /\ started = {}
    /\ failed = {}

InitCollect ==
    /\ InitLoopIdle
    /\ InitCollectVars
    /\ InitRateVars

\* Post.load_comments calls api.get_comments(self.id, self.community,
\* self.num_comments), page and acc left to their defaults: acc is the one
\* list object created when the function was defined.
CallGetComments ==
    /\ ~last_call.active
    /\ Len(acc_default) <= MaxAcc
    /\ \E post_id \in PostIds, expected_num \in 0..MaxExpected :
        last_call' = [active |-> TRUE, post_id |-> post_id,
                      expected_num |-> expected_num, before |-> acc_default,
                      raises |-> FALSE, result |-> <<>>, pages |-> 0,
                      got |-> <<>>, last_empty |-> FALSE]
    /\ UNCHANGED <<acc_default, loopVars, rateVars>>

\* One comment/list request of the running call and lines 73-77 on its answer:
\* a status other than 200 raises, otherwise the page is appended to acc and
\* the call recurses with page + 1 or returns acc.
CommentsPage ==
    /\ last_call.active
    /\ last_call.pages < MaxReqPages
    /\ \E resp \in Responses :
        LET pg == last_call.pages + 1
            comments == CommentsOfPage(last_call.post_id, pg, resp.n)
            step == get_comments_page(last_call.expected_num, acc_default, comments)
        IN  IF resp.status # 200
            THEN /\ last_call' = [last_call EXCEPT !.active = FALSE, !.raises = TRUE,
                                                   !.pages = pg]
                 /\ UNCHANGED acc_default
            ELSE /\ acc_default' = step.acc
                 /\ last_call' = [last_call EXCEPT
                        !.active = step.recurse,
                        !.pages = pg,
                        !.got = last_call.got \o comments,
                        !.last_empty = (Len(comments) = 0),
                        !.result = IF step.recurse THEN <<>> ELSE step.acc]
    /\ UNCHANGED <<loopVars, rateVars>>

NextCollect ==
    \/ CallGetComments
    \/ CommentsPage

SpecCollect == InitCollect /\ [][NextCollect]_vars

Returned(call) == ~call.active /\ call.pages > 0 /\ ~call.raises

\* Of the comments a call received, those of pages 1..k, and those of page k.
GotUpTo(call, k) == Cardinality({j \in 1..Len(call.got) : call.got[j].page <= k})
GotOn(call, k) == Cardinality({j \in 1..Len(call.got) : call.got[j].page = k})

\* C6: a call that returns has requested pages 1..k, k being the first page at
\* which the comments received by this call reach expected_num or the page is
\* empty, and returns exactly the concatenation of those pages.
C6_ReturnsExactlyItsPages ==
    Returned(last_call) =>
        /\ last_call.result = last_call.got
        /\ \/ GotUpTo(last_call, last_call.pages) >= last_call.expected_num
           \/ GotOn(last_call, last_call.pages) = 0
        /\ \A k \in 1..(last_call.pages - 1) :
              /\ GotUpTo(last_call, k) < last_call.expected_num
              /\ GotOn(last_call, k) > 0

\* C7: a call requests at most one page more than the comments it received and
\* at most max(1, expected_num) pages, and no page follows an empty page.
C7_PagesBounded ==
    last_call.pages > 0 =>
        /\ last_call.pages <= Len(last_call.got) + 1
        /\ last_call.pages <= (IF last_call.expected_num > 1
                               THEN last_call.expected_num ELSE 1)
        /\ \A k \in 1..(last_call.pages - 1) : GotOn(last_call, k) > 0

\* C7 witness: a call with an expected count the server never delivers was
\* stopped by an empty second page.
C7_Witness ==
    /\ Returned(last_call)
    /\ last_call.pages = 2
    /\ last_call.last_empty
    /\ Len(last_call.result) < last_call.expected_num

\* C17: the list a call of get_comments returns, which load_comments attaches
\* to the post, holds only comments that the server returned for that post's
\* identifier.
C17_CommentsOfOwnPost ==
    Returned(last_call) =>
        \A j \in 1..Len(last_call.result) :
            last_call.result[j].post_id = last_call.post_id

\* ------------------------------------------------- rate-limited client

\* Seconds that pass between two calls of get_api (the caller working, the
\* backoff sleep, the sleep between cycles) and seconds a request takes.
IdleGaps == {0, 1, request_interval + 5}
Durations == {0, 1, request_interval + 5}
Oversleep == {0, 1}

\* The comparison inverted: sleep only when more than the interval has passed.
needs_sleep_inverted(time_diff) == time_diff > request_interval

\* get_api line 30: if time_diff < self.request_interval
needs_sleep(time_diff) == time_diff < request_interval

\* The entry put on the audit log only once the response was accepted.
log_request_dropped(log, date) == log

\* get_api line 37: self.requests.append({ "date": now, "url": url })
log_request(log, date) == Append(log, date)

\* How a call of get_api ends (lines 39-46): the parsed body is returned, the
\* status is not 200 (Exception), json.loads rejects the body, or requests.get
\* itself raises.
Outcomes == {"ok", "status", "parse", "connection"}

\* sleep_time taken to be the time already elapsed.
sleep_time_elapsed(time_diff) == time_diff

\* get_api line 31: sleep_time = self.request_interval - time_diff
sleep_time(time_diff) == request_interval - time_diff

InitRate ==
    /\ InitLoopIdle
    /\ InitCollectVars
    /\ InitRateVars

\* get_api is entered d seconds after construction or after the previous call
\* returned: now and time_diff are taken (lines 27-31). Statements that do not
\* block take no time.
GetApiEnter ==
    /\ api_pc = "idle"
    /\ Len(sends) < MaxCalls
    /\ \E d \in IdleGaps :
        LET t == time + d
            time_diff == t - last_request
        IN  /\ time' = t
            /\ call_now' = t
            /\ IF needs_sleep(time_diff)
               THEN /\ sleep_for' = sleep_time(time_diff)
                    /\ api_pc' = "sleeping"
               ELSE /\ sleep_for' = 0
                    /\ api_pc' = "sending"
    /\ UNCHANGED <<last_request, sends, dates, returns, ended, loopVars, acc_default,
                   last_call>>

\* sleep(sleep_time), line 33: the thread is suspended for at least sleep_time.
GetApiSleep ==
    /\ api_pc = "sleeping"
    /\ \E over \in Oversleep : time' = time + sleep_for + over
    /\ api_pc' = "sending"
    /\ UNCHANGED <<last_request, call_now, sleep_for, sends, dates, returns, ended,
                   loopVars, acc_default, last_call>>

\* Lines 34-39: last_request is stamped, the entry {date: now, url} is put on
\* the audit log and requests.get is called.
GetApiSend ==
    /\ api_pc = "sending"
    /\ last_request' = time
    /\ dates' = log_request(dates, call_now)
    /\ sends' = Append(sends, time)
    /\ api_pc' = "waiting"
    /\ UNCHANGED <<time, call_now, sleep_for, returns, ended, loopVars, acc_default,
                   last_call>>

\* requests.get returns after dur seconds; get_api returns or raises (39-46).
GetApiReturn ==
    /\ api_pc = "waiting"
    /\ \E dur \in Durations, res \in Outcomes :
        /\ time' = time + dur
        /\ returns' = Append(returns, time + dur)
        /\ ended' = res
    /\ api_pc' = "idle"
    /\ UNCHANGED <<last_request, call_now, sleep_for, sends, dates, loopVars,
                   acc_default, last_call>>

NextRate ==
    \/ GetApiEnter
    \/ GetApiSleep
    \/ GetApiSend
    \/ GetApiReturn

SpecRate == InitRate /\ [][NextRate]_vars

\* C8: of any two consecutive requests, the second is sent at least
\* request_interval seconds after the first was sent.
C8_SendsSpaced ==
    \A k \in 2..Len(sends) : sends[k] - sends[k - 1] >= request_interval

\* C8 witness: a call entered less than request_interval after the previous
\* request was sent has slept and sent its request exactly request_interval
\* after it.
C8_Witness ==
    /\ Len(sends) >= 2
    /\ sleep_for > 0
    /\ sends[Len(sends)] - sends[Len(sends) - 1] = request_interval

\* C9: the dates of any two consecutive audit-log entries differ by at least
\* request_interval seconds.
C9_LogDatesSpaced ==
    \A k \in 2..Len(dates) : dates[k] - dates[k - 1] >= request_interval

\* Calls of get_api entered so far.
CallsEntered == Len(returns) + (IF api_pc = "idle" THEN 0 ELSE 1)

\* C13: every call of get_api puts exactly one entry on the audit log, whether
\* the call returns the parsed body, meets a status other than 200 or fails
\* while the body is parsed, and no request is sent without an entry.
C13_OneLogEntryPerCall ==
    /\ Len(dates) = Len(sends)
    /\ api_pc \in {"waiting", "idle"} => Len(dates) = CallsEntered
    /\ api_pc \in {"sleeping", "sending"} => Len(dates) = CallsEntered - 1
    /\ api_pc = "waiting" => dates[Len(dates)] = call_now

\* C13 witness: a second call has ended with a status other than 200 or with
\* a body that could not be parsed, and the log holds one entry for each call.
C13_Witness ==
    /\ api_pc = "idle"
    /\ ended \in {"status", "parse"}
    /\ Len(returns) >= 2
    /\ Len(dates) = Len(returns)

\* C10 as stated: a request is sent at least request_interval seconds after
\* the previous call returned.
C10_SentIntervalAfterReturn ==
    \A k \in 2..Len(sends) : sends[k] - returns[k - 1] >= request_interval

\* C10 as amended: a request is never sent earlier than request_interval
\* seconds after the previous request was sent (the stamp last_request); a
\* call entered earlier than that sleeps for exactly the remainder first.
C10_SleepsRemainderSinceLastSend ==
    /\ api_pc = "sleeping" =>
          /\ call_now - last_request < request_interval
          /\ sleep_for = request_interval - (call_now - last_request)
    /\ api_pc = "sending" => time - last_request >= request_interval

\* C10 witness: a call entered after the previous call returned has slept the
\* remainder and is about to send less than request_interval seconds after
\* that return.
C10_Witness ==
    /\ api_pc = "sending"
    /\ Len(returns) >= 1
    /\ sleep_for > 0
    /\ time - returns[Len(returns)] < request_interval
    /\ time - last_request >= request_interval

====
